---- MODULE Spec2Model ----
(***************************************************************************)
(* Patch-hunk application engine of posixutils-rs (text/patch_utils).      *)
(*                                                                         *)
(* The engine (hunks.rs) owns a list of same-format hunks, prepares the    *)
(* source file and the output sink, and runs one of eight apply            *)
(* algorithms.  The model follows the code step by step: preparation       *)
(* (header choice, backup, load, create), dispatch (sort), and per hunk a  *)
(* copy-through step and one step per patch line, then the trailing        *)
(* newline resolution.  Files are sequences of tokens: a line's text is    *)
(* one token and NL is the newline byte written by writeln!.               *)
(***************************************************************************)
EXTENDS Integers, Sequences, FiniteSets, TLC

VARIABLES
    kind,               \* Hunks.kind
    data,               \* Hunks.data
    options,            \* PatchOptions: reverse, backup, file, output_file
    file1_header,       \* Hunks.file1_header (does it match, which path)
    file2_header,       \* Hunks.file2_header
    file1_path,         \* Hunks.file1_path
    file2_path,         \* Hunks.file2_path
    file,               \* Hunks.file: Option<PatchFile>
    output,             \* Hunks.output: Option<BufWriter<File>>
    fs,                 \* the file system: path -> absent / dir / file bytes
    pc,                 \* position inside apply()
    result,             \* what apply() returned (or a panic)
    old_file_line,      \* forward cursor (original_file_line in apply_context)
    new_file_line,      \* reverse cursor, forward bookkeeping counter
    no_new_line_count,  \* the no-newline counter
    change_index,       \* apply_context's change_index
    hunk_i,             \* index of the hunk the loop is at
    line_j,             \* index of the patch line inside that hunk
    scen,               \* the diff the hunks were produced from (A, B, edits)
    call,               \* how apply() was called: flags, paths, what exists
    pass,               \* 1: first apply() call, 2: the reverse call of a round trip
    range_call,         \* Range::new arguments of the last call
    range_result        \* what that call returned

vars == <<kind, data, options, file1_header, file2_header, file1_path,
          file2_path, file, output, fs, pc, result, old_file_line,
          new_file_line, no_new_line_count, change_index, hunk_i, line_j,
          scen, call, pass, range_call, range_result>>

engineVars == <<kind, data, options, file1_header, file2_header, file1_path,
                file2_path, file, output, fs, pc, result, old_file_line,
                new_file_line, no_new_line_count, change_index, hunk_i,
                line_j, scen, call, pass>>

rangeVars == <<range_call, range_result>>

----------------------------------------------------------------------------
(* Bounds of the model *)

\* longest original file, in lines
MaxLen == 3
\* most edits (hunks) of one diff
MaxHunks == 2
\* most lines one edit deletes, and most it inserts
MaxEdit == 2
\* most lines of context a unified or context diff was made with
Ctx == 1
\* largest number handed to Range::new
MaxNum == 4

----------------------------------------------------------------------------
(* PatchFormat and Range (range.rs) *)

PatchFormat == {"None", "Normal", "Unified", "Context", "EditScript"}

Min(a, b) == IF a <= b THEN a ELSE b
Max(a, b) == IF a >= b THEN a ELSE b

\* A mutation of Range::new: the start <= end assertion is made for every format.
RangeNewAssertAll(start, end, k) ==
    IF start > end
    THEN [panic |-> TRUE, start |-> 0, end |-> 0, kind |-> "None"]
    ELSE [panic |-> FALSE, start |-> start, end |-> end, kind |-> k]

\* Range::new: asserts start <= end unless the format is Unified.
RangeNew(start, end, k) ==
    IF k # "Unified" /\ ~(start <= end)
    THEN [panic |-> TRUE, start |-> 0, end |-> 0, kind |-> "None"]
    ELSE [panic |-> FALSE, start |-> start, end |-> end, kind |-> k]

\* Range::start
RangeStart(r) == r.start

\* A mutation of Range::end: a Unified range's stored count is returned as
\* if it were an absolute end.
RangeEndStored(r) == r.end

\* Range::end; the None format panics, which the engine never reaches
\* because every range it holds was built with a concrete format.
RangeEnd(r) ==
    CASE r.kind = "Normal" -> r.end
      [] r.kind = "Unified" -> r.start + r.end
      [] r.kind = "Context" -> r.end
      [] r.kind = "EditScript" -> r.end

NoRange == [panic |-> FALSE, start |-> 0, end |-> 0, kind |-> "None"]

----------------------------------------------------------------------------
(* Text files as bytes, and PatchFile *)

NL == "NL"

\* writeln!(output, "{}", text): the text and one newline.
WriteLine(bytes, text) ==
    bytes \o (IF text = "" THEN <<>> ELSE <<text>>) \o <<NL>>

\* writeln!(output): one newline alone.
WriteNewline(bytes) == bytes \o <<NL>>

\* The bytes of a text file holding `lines`, ending with a newline or not.
RECURSIVE FileBytes(_, _)
FileBytes(lines, ewn) ==
    IF lines = <<>> THEN <<>>
    ELSE IF Len(lines) = 1
         THEN (IF lines[1] = "" THEN <<>> ELSE <<lines[1]>>)
              \o (IF ewn THEN <<NL>> ELSE <<>>)
         ELSE WriteLine(<<>>, lines[1]) \o FileBytes(Tail(lines), ewn)

\* The lines of a byte sequence: split at each newline; what follows the last
\* newline is a line only when it is not empty.  Every line the engine and the
\* diff write is a single token, so a line is its token, or "" when empty.
RECURSIVE SplitLines(_, _)
SplitLines(bytes, cur) ==
    IF bytes = <<>>
    THEN (IF cur = <<>> THEN <<>> ELSE <<cur[1]>>)
    ELSE IF Head(bytes) = NL
         THEN <<(IF cur = <<>> THEN "" ELSE cur[1])>> \o SplitLines(Tail(bytes), <<>>)
         ELSE SplitLines(Tail(bytes), Append(cur, Head(bytes)))

FileKind == {"Original", "Modified"}

NoFile == [some |-> FALSE, lines |-> <<>>, ends_with_newline |-> FALSE,
           kind |-> "Original"]

\* PatchFile::load_file on the bytes of an existing regular file.
LoadFile(bytes, k) ==
    [some |-> TRUE,
     lines |-> SplitLines(bytes, <<>>),
     ends_with_newline |-> (bytes # <<>> /\ bytes[Len(bytes)] = NL),
     kind |-> k]

----------------------------------------------------------------------------
(* PatchLine and Hunk *)

\* A PatchLine: its variant (tag), the format it belongs to, its text, and the
\* fields of the variants that carry more.
PatchLine(tag, fmt, text) ==
    [tag |-> tag, fmt |-> fmt, text |-> text, is_change |-> FALSE,
     left |-> NoRange, right |-> NoRange, hk |-> "None"]

ChangeLine(tag, fmt, text, is_change) ==
    [PatchLine(tag, fmt, text) EXCEPT !.is_change = is_change]

HeaderLine(tag, fmt, left, right, hk) ==
    [PatchLine(tag, fmt, "") EXCEPT !.left = left, !.right = right, !.hk = hk]

NoNewLine(fmt) == PatchLine("NoNewLine", fmt, "")

\* PatchLine::kind
PatchLineKind(line) == line.fmt

\* PatchLine::original_line: the text the line carries for the file.
OriginalLine(line) == line.text

\* A Hunk of any of the four formats.  f1 and f2 are range_left and
\* range_right of a Normal hunk, f1 is the range of an EditScript hunk;
\* original and modified are the two line lists of a Context hunk.
Hunk(fmt, f1, f2, ekind, lines, original, modified) ==
    [kind |-> fmt, f1 |-> f1, f2 |-> f2, ekind |-> ekind, lines |-> lines,
     original |-> original, modified |-> modified]

\* Hunk::kind
HunkKind(h) == h.kind

\* ContextHunkData::is_original_empty: the original side holds nothing but its
\* header.
IsOriginalEmpty(h) ==
    \A i \in 1..Len(h.original) :
        h.original[i].tag \in {"ContextHunkRange", "ContextHunkSeparator"}

\* The changed lines of the modified side, in order.
ChangedLines(h) ==
    SelectSeq(h.modified, LAMBDA l : l.tag = "ContextInserted" /\ l.is_change)

\* ContextHunkData::change_by_index can answer for this index.
HasChange(h, i) == i + 1 <= Len(ChangedLines(h))

\* ContextHunkData::change_by_index (index from 0).
ChangeByIndex(h, i) == ChangedLines(h)[i + 1]

----------------------------------------------------------------------------
(* The diff the hunks come from: an original file A, a list of edits, and   *)
(* the modified file B.  An edit [at, del, ins] deletes the `del` lines of  *)
(* A after line `at` and puts `ins` new lines in their place.               *)

OldNames == <<"a", "b", "c", "d", "e", "f">>
NewNames == <<<<"x1", "x2", "x3", "x4">>, <<"y1", "y2", "y3", "y4">>,
              <<"z1", "z2", "z3", "z4">>, <<"w1", "w2", "w3", "w4">>>>

\* The i-th line edit k inserts.
NewText(k, i) == NewNames[k][i]

RECURSIVE Offset(_, _)
\* How far the edits before edit k shift B's line numbers against A's.
Offset(edits, k) ==
    IF k <= 1 THEN 0
    ELSE Offset(edits, k - 1) + edits[k - 1].ins - edits[k - 1].del

RECURSIVE BuildB(_, _, _, _)
\* The modified file: A with every edit from k on made, read from line pos.
BuildB(A, edits, k, pos) ==
    IF k > Len(edits) THEN SubSeq(A, pos, Len(A))
    ELSE SubSeq(A, pos, edits[k].at)
         \o [i \in 1..edits[k].ins |-> NewText(k, i)]
         \o BuildB(A, edits, k + 1, edits[k].at + edits[k].del + 1)

\* Unchanged lines a diff made with c lines of context leaves between two
\* hunks of this format.
Gap(fmt, c) == IF fmt \in {"Unified", "Context"} THEN 2 * c + 1 ELSE 1

EditRec(n) ==
    {e \in [at : 0..n, del : 0..MaxEdit, ins : 0..MaxEdit] :
        e.del + e.ins >= 1 /\ e.at + e.del <= n}

\* The edit lists a diff of an n-line file can report in this format.
EditSeqs(n, fmt, c) ==
    {s \in UNION {[1..m -> EditRec(n)] : m \in 1..MaxHunks} :
        \A k \in 1..(Len(s) - 1) :
            s[k + 1].at >= s[k].at + s[k].del + Gap(fmt, c)}

\* The newline flags a diff with these edits can come from: a line outside
\* the edits is the same line in A and B, its missing newline included.
FlagsFit(n, edits, ewnA, ewnB) ==
    LET e == edits[Len(edits)]
        touchEnd == e.at + e.del = n
    IN  IF ~touchEnd THEN ewnA = ewnB
        ELSE IF e.ins > 0 THEN (e.del = 0 => ewnA)
        ELSE IF e.at >= 1 THEN ewnB
        ELSE ~ewnB

Scenario(n, es, fa, fb, sw, c) ==
    [A |-> SubSeq(OldNames, 1, n), ewnA |-> fa,
     B |-> BuildB(SubSeq(OldNames, 1, n), es, 1, 1), ewnB |-> fb,
     edits |-> es, swapped |-> sw, ctx |-> c]

\* All diffs within the bounds, for one format.  `swapped` says the hunks
\* reach the engine last first; `ctx` is the number of context lines the
\* diff was made with (diff -U0 and -C0 give none), which the formats
\* without context ignore.
Scenarios(fmt) ==
    UNION {{Scenario(n, es, fa, fb, sw, c) :
                es \in {s \in EditSeqs(n, fmt, c) :
                            /\ FlagsFit(n, s, fa, fb)
                            /\ (sw => Len(s) >= 2)}} :
           n \in 1..MaxLen, fa \in BOOLEAN, fb \in BOOLEAN, sw \in BOOLEAN,
           c \in IF fmt \in {"Unified", "Context"} THEN 0..Ctx ELSE {Ctx}}

----------------------------------------------------------------------------
(* The hunks of a diff, as the parser hands them to the engine *)

\* The lines edit e deletes, with the no-newline marker when the last of
\* them is A's last line and A does not end with a newline.
DelLines(S, e, tag, fmt, is_change) ==
    [i \in 1..e.del |-> ChangeLine(tag, fmt, S.A[e.at + i], is_change)]
    \o (IF e.del > 0 /\ e.at + e.del = Len(S.A) /\ ~S.ewnA
        THEN <<NoNewLine(fmt)>> ELSE <<>>)

\* The lines edit k inserts, with the marker when they end B and B does not
\* end with a newline.
InsLines(S, k, tag, fmt, is_change) ==
    LET e == S.edits[k]
    IN  [i \in 1..e.ins |-> ChangeLine(tag, fmt, NewText(k, i), is_change)]
        \o (IF e.ins > 0 /\ e.at + e.del = Len(S.A) /\ ~S.ewnB
            THEN <<NoNewLine(fmt)>> ELSE <<>>)

\* Context lines from..to of A, with the marker when they end the file.
CtxLines(S, from, to, tag, fmt) ==
    [i \in 1..(to - from + 1) |-> PatchLine(tag, fmt, S.A[from + i - 1])]
    \o (IF to >= from /\ to = Len(S.A) /\ ~S.ewnA
        THEN <<NoNewLine(fmt)>> ELSE <<>>)

\* NormalRangeKind / EditScriptHunkKind of an edit.
EditKind(e) ==
    IF e.del = 0 THEN "Insert" ELSE IF e.ins = 0 THEN "Delete" ELSE "Change"

\* Normal format: "LaR1,R2", "L1,L2dR", "L1,L2cR1,R2".
NormalHunk(S, k) ==
    LET e == S.edits[k]
        off == Offset(S.edits, k)
        left == IF e.del = 0 THEN RangeNew(e.at, e.at, "Normal")
                ELSE RangeNew(e.at + 1, e.at + e.del, "Normal")
        right == IF e.ins = 0 THEN RangeNew(e.at + off, e.at + off, "Normal")
                 ELSE RangeNew(e.at + off + 1, e.at + off + e.ins, "Normal")
    IN  Hunk("Normal", left, right, "None",
             <<HeaderLine("NormalRange", "Normal", left, right, EditKind(e))>>
             \o DelLines(S, e, "NormalLineDelete", "Normal", FALSE)
             \o (IF EditKind(e) = "Change"
                 THEN <<PatchLine("NormalChangeSeparator", "Normal", "")>>
                 ELSE <<>>)
             \o InsLines(S, k, "NormalLineInsert", "Normal", FALSE),
             <<>>, <<>>)

\* Lines of context before and after an edit.
PreCtx(S, e) == Min(S.ctx, e.at)
PostCtx(S, e) == Min(S.ctx, Len(S.A) - (e.at + e.del))

\* Range::try_from_unified on "N,M" and on "N" (a count of one is printed
\* as the start alone).
UnifiedRange(start, count) ==
    IF count = 1 THEN RangeNew(start, 0, "Unified")
    ELSE RangeNew(start, count, "Unified")

\* First line and line count of a hunk side that holds `count` lines and
\* whose first line would be line `first`.
SideStart(first, count) == IF count = 0 THEN first - 1 ELSE first

\* Unified format: "@@ -s1,c1 +s2,c2 @@".
UnifiedHunk(S, k) ==
    LET e == S.edits[k]
        off == Offset(S.edits, k)
        pre == PreCtx(S, e)
        post == PostCtx(S, e)
        f1 == UnifiedRange(SideStart(e.at - pre + 1, pre + e.del + post),
                           pre + e.del + post)
        f2 == UnifiedRange(SideStart(e.at - pre + off + 1, pre + e.ins + post),
                           pre + e.ins + post)
    IN  Hunk("Unified", f1, f2, "None",
             <<HeaderLine("UnifiedHunkHeader", "Unified", f1, f2, "None")>>
             \o CtxLines(S, e.at - pre + 1, e.at, "UnifiedUnchanged", "Unified")
             \o DelLines(S, e, "UnifiedDeleted", "Unified", FALSE)
             \o InsLines(S, k, "UnifiedInserted", "Unified", FALSE)
             \o CtxLines(S, e.at + e.del + 1, e.at + e.del + post,
                         "UnifiedUnchanged", "Unified"),
             <<>>, <<>>)

\* Range::try_from_context on "*** N,M ****" and on "*** N ****".
ContextRange(first, count) ==
    IF count <= 1
    THEN RangeNew(SideStart(first, count), SideStart(first, count), "Context")
    ELSE RangeNew(first, first + count - 1, "Context")

\* Context format: the original side "*** s,e ****" holds lines only when
\* the edit deletes, the modified side "--- s,e ----" only when it inserts.
ContextHunk(S, k) ==
    LET e == S.edits[k]
        off == Offset(S.edits, k)
        pre == PreCtx(S, e)
        post == PostCtx(S, e)
        f1 == ContextRange(e.at - pre + 1, pre + e.del + post)
        f2 == ContextRange(e.at - pre + off + 1, pre + e.ins + post)
        before == CtxLines(S, e.at - pre + 1, e.at, "ContextUnchanged", "Context")
        after == CtxLines(S, e.at + e.del + 1, e.at + e.del + post,
                          "ContextUnchanged", "Context")
    IN  Hunk("Context", f1, f2, "None", <<>>,
             <<PatchLine("ContextHunkSeparator", "Context", ""),
               HeaderLine("ContextHunkRange", "Context", f1, NoRange, "None")>>
             \o (IF e.del > 0
                 THEN before
                      \o DelLines(S, e, "ContextDeleted", "Context", e.ins > 0)
                      \o after
                 ELSE <<>>),
             <<HeaderLine("ContextHunkRange", "Context", f2, NoRange, "None")>>
             \o (IF e.ins > 0
                 THEN before
                      \o InsLines(S, k, "ContextInserted", "Context", e.del > 0)
                      \o after
                 ELSE <<>>))

\* Range::try_from_edit_script on "Nx" and on "N,Mx".
EditScriptRange(e) ==
    IF e.del = 0 THEN RangeNew(e.at, e.at, "EditScript")
    ELSE RangeNew(e.at + 1, e.at + e.del, "EditScript")

\* Edit-script format: "Na", "N,Md", "N,Mc"; the text of an a or c command
\* ends with a line holding a single dot.  The format has no no-newline
\* marker.
EditScriptHunk(S, k) ==
    LET e == S.edits[k]
        r == EditScriptRange(e)
        tag == IF e.del = 0 THEN "EditScriptInsert" ELSE "EditScriptChange"
    IN  Hunk("EditScript", r, NoRange, EditKind(e),
             <<HeaderLine("EditScriptRange", "EditScript", r, NoRange, EditKind(e))>>
             \o [i \in 1..e.ins |-> PatchLine(tag, "EditScript", NewText(k, i))]
             \o (IF e.ins > 0 THEN <<PatchLine(tag, "EditScript", ".")>> ELSE <<>>),
             <<>>, <<>>)

\* The hunk of edit k in the given format.
HunkOf(fmt, S, k) ==
    CASE fmt = "Normal" -> NormalHunk(S, k)
      [] fmt = "Unified" -> UnifiedHunk(S, k)
      [] fmt = "Context" -> ContextHunk(S, k)
      [] fmt = "EditScript" -> EditScriptHunk(S, k)

\* The hunks in the order the parser met them.
ParsedHunks(fmt, S) ==
    LET n == Len(S.edits)
    IN  [k \in 1..n |-> HunkOf(fmt, S, IF S.swapped THEN n + 1 - k ELSE k)]

----------------------------------------------------------------------------
(* Hunks: construction and population (hunks.rs, lines 47-111) *)

\* A mutation of the kind test: the two kinds are compared.
KindsAreEqual(self_kind, other_kind) == self_kind = other_kind

\* matches!(self.kind, _hunk_kind): the pattern is a fresh binding, which
\* matches every value, so the test never fails.
KindMatches(self_kind, other_kind) == TRUE

\* Hunks::add_hunk: the list with the hunk pushed, or a panic.
AddHunk(self_kind, hunks, hunk) ==
    IF ~KindMatches(self_kind, HunkKind(hunk))
    THEN [panic |-> TRUE, data |-> hunks]
    ELSE [panic |-> FALSE, data |-> Append(hunks, hunk)]

\* UnifiedHunkData::add_patch_line, and the like of the other three formats:
\* only lines of the hunk's own format may be pushed.
HunkAddPatchLine(hunk, line) ==
    IF PatchLineKind(line) # HunkKind(hunk)
    THEN [panic |-> TRUE, hunk |-> hunk]
    ELSE [panic |-> FALSE, hunk |-> [hunk EXCEPT !.lines = Append(@, line)]]

\* Hunks::add_patch_line: the line goes to the last hunk.
AddPatchLine(self_kind, hunks, line) ==
    IF ~KindMatches(self_kind, PatchLineKind(line)) \/ hunks = <<>>
    THEN [panic |-> TRUE, data |-> hunks]
    ELSE LET r == HunkAddPatchLine(hunks[Len(hunks)], line)
         IN  [panic |-> r.panic,
              data |-> [hunks EXCEPT ![Len(hunks)] = r.hunk]]

RECURSIVE AddAll(_, _, _)
\* The parser's calls of add_hunk for a list of hunks, first to last.
AddAll(self_kind, hunks, more) ==
    IF more = <<>> THEN hunks
    ELSE AddAll(self_kind, AddHunk(self_kind, hunks, Head(more)).data, Tail(more))

----------------------------------------------------------------------------
(* Sorting (modify_hunks with sort_by_key, a stable sort) *)

\* The key each apply algorithm sorts by.
SortKey(fmt, reverse, h) ==
    CASE fmt = "Normal" /\ ~reverse -> RangeStart(h.f2)
      [] fmt = "Normal" /\ reverse -> RangeStart(h.f1)
      [] fmt = "Unified" /\ ~reverse -> RangeStart(h.f1)
      [] fmt = "Unified" /\ reverse -> RangeEnd(h.f2)
      [] fmt = "Context" -> RangeStart(h.f1)
      [] fmt = "EditScript" -> RangeEnd(h.f1)

RECURSIVE InsertByKey(_, _, _, _)
\* h put into a sorted list, after the hunks whose key is not larger.
InsertByKey(fmt, reverse, sorted, h) ==
    IF sorted = <<>> THEN <<h>>
    ELSE IF SortKey(fmt, reverse, h) < SortKey(fmt, reverse, Head(sorted))
         THEN <<h>> \o sorted
         ELSE <<Head(sorted)>> \o InsertByKey(fmt, reverse, Tail(sorted), h)

RECURSIVE SortHunks(_, _, _)
\* sort_by_key: the hunks in non-decreasing key order, equal keys in the
\* order they had.
SortHunks(fmt, reverse, hunks) ==
    IF hunks = <<>> THEN <<>>
    ELSE InsertByKey(fmt, reverse,
                     SortHunks(fmt, reverse, SubSeq(hunks, 1, Len(hunks) - 1)),
                     hunks[Len(hunks)])

----------------------------------------------------------------------------
(* What one patch line does, per apply algorithm.  An effect is the texts   *)
(* written, the new values of the counters, and whether the step panics.    *)

Effect(w, old, new, nnl, chg) ==
    [write |-> w, old |-> old, new |-> new, nnl |-> nnl, chg |-> chg,
     panic |-> FALSE]

PanicEffect(old, new, nnl, chg) ==
    [write |-> <<>>, old |-> old, new |-> new, nnl |-> nnl, chg |-> chg,
     panic |-> TRUE]

\* A mutation of apply_normal: the range header is purely structural.
NormalLineInertHeader(l, F, old, new, nnl, chg) ==
    CASE l.tag \in {"NormalRange", "NormalChangeSeparator", "NormalLineDelete"} ->
            Effect(<<>>, old, new, nnl, chg)
      [] l.tag = "NormalLineInsert" -> Effect(<<OriginalLine(l)>>, old, new, nnl, chg)
      [] l.tag = "NoNewLine" -> Effect(<<>>, old, new, nnl + 1, chg)
      [] OTHER -> PanicEffect(old, new, nnl, chg)

\* apply_normal, one patch line (lines 140-174).
NormalLine(l, F, old, new, nnl, chg) ==
    CASE l.tag = "NormalRange" ->
            LET left_diff == RangeEnd(l.left) - RangeStart(l.left)
                right_diff == RangeEnd(l.right) - RangeStart(l.right)
            IN  (CASE l.hk = "Insert" ->
                        IF old <= RangeStart(l.left)
                        THEN IF old <= Len(F)
                             THEN Effect(<<F[old]>>, old, new + left_diff + 1, nnl, chg)
                             ELSE PanicEffect(old, new, nnl, chg)
                        ELSE Effect(<<>>, old, new + left_diff + 1, nnl, chg)
                  [] l.hk = "Change" ->
                        Effect(<<>>, old + left_diff + 1, new + right_diff + 1, nnl, chg)
                  [] l.hk = "Delete" ->
                        Effect(<<>>, old + left_diff + 1, new, nnl, chg))
      [] l.tag = "NormalChangeSeparator" -> Effect(<<>>, old, new, nnl, chg)
      [] l.tag = "NormalLineInsert" -> Effect(<<OriginalLine(l)>>, old, new, nnl, chg)
      [] l.tag = "NormalLineDelete" -> Effect(<<>>, old, new, nnl, chg)
      [] l.tag = "NoNewLine" -> Effect(<<>>, old, new, nnl + 1, chg)
      [] OTHER -> PanicEffect(old, new, nnl, chg)

\* apply_normal_reverse, one patch line (lines 215-242).
NormalReverseLine(l, F, old, new, nnl, chg) ==
    CASE l.tag = "NormalRange" ->
            LET right_diff == RangeEnd(l.right) - RangeStart(l.right)
            IN  (CASE l.hk = "Insert" -> Effect(<<>>, old, new + right_diff + 1, nnl, chg)
                  [] l.hk = "Change" -> Effect(<<>>, old, new + right_diff + 1, nnl, chg)
                  [] l.hk = "Delete" ->
                        IF new <= RangeStart(l.right)
                        THEN IF new <= Len(F)
                             THEN Effect(<<F[new]>>, old, new + 1, nnl, chg)
                             ELSE PanicEffect(old, new, nnl, chg)
                        ELSE Effect(<<>>, old, new, nnl, chg))
      [] l.tag = "NormalChangeSeparator" -> Effect(<<>>, old, new, nnl, chg)
      [] l.tag = "NormalLineInsert" -> Effect(<<>>, old, new, nnl, chg)
      [] l.tag = "NormalLineDelete" -> Effect(<<OriginalLine(l)>>, old, new, nnl, chg)
      [] l.tag = "NoNewLine" -> Effect(<<>>, old, new, nnl + 1, chg)
      [] OTHER -> PanicEffect(old, new, nnl, chg)

\* apply_unified, one patch line (lines 285-301).
UnifiedLine(l, F, old, new, nnl, chg) ==
    CASE l.tag = "UnifiedHunkHeader" -> Effect(<<>>, old, new, nnl, chg)
      [] l.tag = "UnifiedDeleted" -> Effect(<<>>, old + 1, new, nnl, chg)
      [] l.tag = "UnifiedUnchanged" ->
            Effect(<<OriginalLine(l)>>, old + 1, new + 1, nnl, chg)
      [] l.tag = "UnifiedInserted" ->
            Effect(<<OriginalLine(l)>>, old, new + 1, nnl, chg)
      [] l.tag = "NoNewLine" -> Effect(<<>>, old, new, nnl + 1, chg)
      [] OTHER -> PanicEffect(old, new, nnl, chg)

\* A mutation of apply_unified_reverse: the lines keep their forward roles.
UnifiedReverseLineAsForward(l, F, old, new, nnl, chg) ==
    UnifiedLine(l, F, old, new, nnl, chg)

\* apply_unified_reverse, one patch line (lines 343-357).
UnifiedReverseLine(l, F, old, new, nnl, chg) ==
    CASE l.tag = "UnifiedHunkHeader" -> Effect(<<>>, old, new, nnl, chg)
      [] l.tag = "UnifiedDeleted" -> Effect(<<OriginalLine(l)>>, old, new, nnl, chg)
      [] l.tag = "UnifiedUnchanged" ->
            Effect(<<OriginalLine(l)>>, old, new + 1, nnl, chg)
      [] l.tag = "UnifiedInserted" -> Effect(<<>>, old, new + 1, nnl, chg)
      [] l.tag = "NoNewLine" -> Effect(<<>>, old, new, nnl + 1, chg)
      [] OTHER -> PanicEffect(old, new, nnl, chg)

\* apply_context, one patch line of hunk h (lines 415-445); old is
\* original_file_line.
ContextLine(h, l, F, old, new, nnl, chg) ==
    CASE l.tag = "ContextInserted" ->
            Effect(<<OriginalLine(l)>>, IF l.is_change THEN old + 1 ELSE old,
                   new, nnl, chg)
      [] l.tag = "ContextDeleted" ->
            IF l.is_change
            THEN IF HasChange(h, chg)
                 THEN Effect(<<OriginalLine(ChangeByIndex(h, chg))>>, old + 1,
                             new, nnl, chg + 1)
                 ELSE PanicEffect(old, new, nnl, chg)
            ELSE Effect(<<>>, old + 1, new, nnl, chg)
      [] l.tag = "ContextUnchanged" ->
            Effect(<<OriginalLine(l)>>, old + 1, new, nnl, chg)
      [] l.tag = "ContextHunkRange" -> Effect(<<>>, old, new, nnl, chg)
      [] l.tag = "ContextHunkSeparator" -> Effect(<<>>, old, new, nnl, chg)
      [] l.tag = "NoNewLine" -> Effect(<<>>, old, new, nnl + 1, chg)
      [] OTHER -> PanicEffect(old, new, nnl, chg)

\* apply_context_reverse, one patch line (lines 501-522).
ContextReverseLine(l, F, old, new, nnl, chg) ==
    CASE l.tag = "ContextInserted" -> Effect(<<>>, old, new + 1, nnl, chg)
      [] l.tag = "ContextDeleted" ->
            Effect(<<OriginalLine(l)>>, old,
                   IF l.is_change THEN new + 1 ELSE new, nnl, chg)
      [] l.tag = "ContextUnchanged" ->
            Effect(<<OriginalLine(l)>>, old, new + 1, nnl, chg)
      [] l.tag = "ContextHunkRange" -> Effect(<<>>, old, new, nnl, chg)
      [] l.tag = "ContextHunkSeparator" -> Effect(<<>>, old, new, nnl, chg)
      [] l.tag = "NoNewLine" -> Effect(<<>>, old, new, nnl + 1, chg)
      [] OTHER -> PanicEffect(old, new, nnl, chg)

\* apply_edit_script, one patch line of hunk h (lines 577-598).  A Delete
\* header reads the line's own range, a Change header the hunk's.
EditScriptLine(h, l, F, old, new, nnl, chg) ==
    CASE l.tag = "EditScriptRange" ->
            (CASE l.hk = "Delete" ->
                    Effect(<<>>, old + (RangeEnd(l.left) - RangeStart(l.left) + 1),
                           new, nnl, chg)
              [] l.hk = "Change" ->
                    Effect(<<>>, old + (RangeEnd(h.f1) - RangeStart(h.f1) + 1),
                           new, nnl, chg)
              [] OTHER -> Effect(<<>>, old, new, nnl, chg))
      [] l.tag = "EditScriptInsert" -> Effect(<<l.text>>, old, new + 1, nnl, chg)
      [] l.tag = "EditScriptChange" -> Effect(<<l.text>>, old, new + 1, nnl, chg)
      [] l.tag = "NoNewLine" -> Effect(<<>>, old, new, nnl + 1, chg)
      [] OTHER -> PanicEffect(old, new, nnl, chg)

\* The effect of patch line l of hunk h under the algorithm apply() chose.
LineEffect(fmt, reverse, h, l, F, old, new, nnl, chg) ==
    CASE fmt = "Normal" /\ ~reverse -> NormalLine(l, F, old, new, nnl, chg)
      [] fmt = "Normal" /\ reverse -> NormalReverseLine(l, F, old, new, nnl, chg)
      [] fmt = "Unified" /\ ~reverse -> UnifiedLine(l, F, old, new, nnl, chg)
      [] fmt = "Unified" /\ reverse -> UnifiedReverseLine(l, F, old, new, nnl, chg)
      [] fmt = "Context" /\ ~reverse -> ContextLine(h, l, F, old, new, nnl, chg)
      [] fmt = "Context" /\ reverse -> ContextReverseLine(l, F, old, new, nnl, chg)
      [] fmt = "EditScript" /\ ~reverse -> EditScriptLine(h, l, F, old, new, nnl, chg)

\* The patch lines an algorithm walks for hunk h: for a Context hunk the
\* modified side when the original side is empty, else the original side.
WalkedLines(fmt, h) ==
    IF fmt = "Context"
    THEN (IF IsOriginalEmpty(h) THEN h.modified ELSE h.original)
    ELSE h.lines

\* The source line number up to which (exclusive) lines are copied before
\* hunk h, given the cursor.
CopyBoundary(fmt, reverse, h, cursor) ==
    CASE fmt = "EditScript" ->
            IF cursor - 1 <= RangeStart(h.f1)
            THEN (IF h.ekind = "Insert" THEN RangeStart(h.f1) + 1
                  ELSE RangeStart(h.f1))
            ELSE cursor
      [] fmt # "EditScript" /\ ~reverse -> RangeStart(h.f1)
      [] fmt # "EditScript" /\ reverse -> RangeStart(h.f2)

\* A mutation of the counter-1 branch: every algorithm tests for the role
\* its file was loaded with.
TestedKindLoaded(fmt, reverse) ==
    IF reverse THEN "Modified" ELSE "Original"

\* The FileKind the counter-1 branch of an algorithm tests for.
TestedKind(fmt, reverse) ==
    IF fmt = "Context" /\ reverse THEN "Modified" ELSE "Original"

\* A mutation of the final step: the counter-1 branch tests the flag alone.
EmitsFinalNewlineAnyKind(fmt, reverse, nnl, f) ==
    \/ nnl = 0
    \/ nnl = 1 /\ ~f.ends_with_newline

\* The final match on the no-newline counter: is writeln!(output) run?
EmitsFinalNewline(fmt, reverse, nnl, f) ==
    \/ nnl = 0
    \/ nnl = 1 /\ f.kind = TestedKind(fmt, reverse) /\ ~f.ends_with_newline

----------------------------------------------------------------------------
(* The file system, the options and the initial states *)

NoPath == ""
Paths == {"f1", "f2", "out"}

\* format!("{}.orig", file_name) of handle_backup
OrigPath(p) == p \o ".orig"

AllPaths == Paths \cup {OrigPath(p) : p \in Paths}

Absent == [type |-> "absent", bytes |-> <<>>]
Directory == [type |-> "dir", bytes |-> <<>>]
RegularFile(bytes) == [type |-> "file", bytes |-> bytes]

\* Path::is_file
IsFile(entry) == entry.type = "file"

EntryOf(type, bytes) ==
    CASE type = "absent" -> Absent
      [] type = "dir" -> Directory
      [] type = "file" -> RegularFile(bytes)

NoOutput == [some |-> FALSE, path |-> NoPath]
NoHeader == [some |-> FALSE, matches |-> FALSE, path |-> NoPath]

\* A header line "--- path date": set by the parser for Unified and Context
\* patches; it matches UNIFIED_CONTEXT_HEADER_REGEX or not.
Header(matches, p) == [some |-> TRUE, matches |-> matches, path |-> p]

HeaderFormats == {"Unified", "Context"}
Formats == {"Normal", "Unified", "Context", "EditScript"}

\* The diff of the spec's example: A = a b c, "delete line 2".
ExampleScenario ==
    Scenario(3, <<[at |-> 1, del |-> 1, ins |-> 0]>>, TRUE, TRUE, FALSE, Ctx)

\* The plain way of calling: no backup, existing files, matching headers;
\* Normal and EditScript patch the positional file in place.
PlainConfig(fmt) ==
    IF fmt \in HeaderFormats
    THEN [backup |-> FALSE, file |-> NoPath, output_file |-> NoPath,
          h1 |-> TRUE, h2 |-> TRUE, t1 |-> "file", t2 |-> "file", tout |-> "absent"]
    ELSE [backup |-> FALSE, file |-> "f1", output_file |-> NoPath,
          h1 |-> FALSE, h2 |-> FALSE, t1 |-> "file", t2 |-> "absent", tout |-> "absent"]

\* Every way of calling within the bounds.
Configs(fmt) ==
    IF fmt \in HeaderFormats
    THEN [backup : BOOLEAN, file : {NoPath}, output_file : {NoPath},
          h1 : BOOLEAN, h2 : BOOLEAN,
          t1 : {"absent", "dir", "file"}, t2 : {"absent", "dir", "file"},
          tout : {"absent"}]
    ELSE [backup : BOOLEAN, file : {NoPath, "f1"}, output_file : {NoPath, "out"},
          h1 : {FALSE}, h2 : {FALSE},
          t1 : {"absent", "dir", "file"}, t2 : {"absent"},
          tout : {"absent", "dir", "file"}]

\* The file system before apply(): for the header formats f1 holds A and f2
\* holds B; for the others f1 holds the file of the direction asked for.
InitialFs(fmt, reverse, S, cfg) ==
    LET bytesA == FileBytes(S.A, S.ewnA)
        bytesB == FileBytes(S.B, S.ewnB)
    IN  [p \in AllPaths |->
            CASE p = "f1" ->
                    EntryOf(cfg.t1, IF fmt \notin HeaderFormats /\ reverse
                                    THEN bytesB ELSE bytesA)
              [] p = "f2" -> EntryOf(cfg.t2, bytesB)
              [] p = "out" -> EntryOf(cfg.tout, <<"old", NL>>)
              [] OTHER -> Absent]

EngineInit ==
    \E fmt \in Formats, reverse \in BOOLEAN :
    \E S \in Scenarios(fmt), cfg \in Configs(fmt) :
        /\ cfg = PlainConfig(fmt) \/ S = ExampleScenario
        /\ kind = fmt
        /\ data = AddAll(fmt, <<>>, ParsedHunks(fmt, S))
        /\ options = [reverse |-> reverse, backup |-> cfg.backup,
                      file |-> cfg.file, output_file |-> cfg.output_file]
        /\ file1_header = IF fmt \in HeaderFormats THEN Header(cfg.h1, "f1") ELSE NoHeader
        /\ file2_header = IF fmt \in HeaderFormats THEN Header(cfg.h2, "f2") ELSE NoHeader
        /\ file1_path = NoPath
        /\ file2_path = NoPath
        /\ file = NoFile
        /\ output = NoOutput
        /\ fs = InitialFs(fmt, reverse, S, cfg)
        /\ pc = "start"
        /\ result = "None"
        /\ old_file_line = 1
        /\ new_file_line = 1
        /\ no_new_line_count = 0
        /\ change_index = 0
        /\ hunk_i = 1
        /\ line_j = 1
        /\ scen = S
        /\ call = cfg
        /\ pass = 1

----------------------------------------------------------------------------
(* apply(): preparation *)

counters == <<old_file_line, new_file_line, no_new_line_count, change_index,
              hunk_i, line_j>>
given == <<kind, options, file1_header, file2_header, scen, call, pass,
           range_call, range_result>>

\* Return from apply() with r.
Return(r) == pc' = "done" /\ result' = r

\* A mutation of the choice of the source: file1's path whenever its header
\* matched, whatever the direction.
SourcePathFile1First ==
    IF kind \in HeaderFormats
    THEN (IF file1_path # NoPath THEN file1_path ELSE file2_path)
    ELSE options.file

\* The file preparation reads, once the destination has been chosen.
SourcePath ==
    IF kind \in HeaderFormats
    THEN (IF options.reverse THEN file2_path ELSE file1_path)
    ELSE options.file

\* The file preparation creates: for the header formats the path of the
\* chosen header, else the positional file when there is one, else the
\* explicit output path.
OutputPath ==
    IF kind \in HeaderFormats
    THEN (IF options.reverse /\ file2_path # NoPath THEN file2_path ELSE file1_path)
    ELSE (IF options.file # NoPath THEN options.file ELSE options.output_file)

\* prepare_context_unified, lines 636-673: both headers are matched against
\* the pattern, the destination is the path of the header the direction
\* asks for, and a header that did not match is an error.
PrepareContextUnified ==
    /\ pc = "start"
    /\ kind \in HeaderFormats
    /\ file1_path' = IF file1_header.matches THEN file1_header.path ELSE NoPath
    /\ file2_path' = IF file2_header.matches THEN file2_header.path ELSE NoPath
    /\ IF (options.reverse /\ file2_header.matches)
          \/ (~options.reverse /\ file1_header.matches)
       THEN pc' = "backup" /\ result' = result
       ELSE Return("Error")
    /\ UNCHANGED <<data, file, output, fs, counters, given>>

\* handle_backup, lines 748-763.
HandleBackup ==
    /\ pc = "backup"
    /\ IF ~options.backup
       THEN pc' = "load" /\ UNCHANGED <<fs, result>>
       ELSE IF ~IsFile(fs[SourcePath])
            THEN Return("Error") /\ UNCHANGED fs
            ELSE /\ fs' = [fs EXCEPT ![OrigPath(SourcePath)] = fs[SourcePath]]
                 /\ pc' = "load"
                 /\ UNCHANGED result
    /\ UNCHANGED <<data, file, output, file1_path, file2_path, counters, given>>

\* PatchFile::load_file of prepare_context_unified, lines 677-680.
LoadSource ==
    /\ pc = "load"
    /\ IF IsFile(fs[SourcePath])
       THEN /\ file' = LoadFile(fs[SourcePath].bytes,
                                IF options.reverse THEN "Modified" ELSE "Original")
            /\ pc' = "create"
            /\ UNCHANGED result
       ELSE Return("IOError") /\ UNCHANGED file
    /\ UNCHANGED <<data, output, fs, file1_path, file2_path, counters, given>>

\* A mutation of prepare_normal_ed: the explicit output path is unwrapped
\* instead of matched, so that its absence is a panic.
PrepareNormalEdUnwrap ==
    /\ pc = "start"
    /\ kind \notin HeaderFormats
    /\ IF options.file # NoPath
       THEN IF IsFile(fs[options.file])
            THEN /\ file' = LoadFile(fs[options.file].bytes,
                                     IF options.reverse THEN "Modified" ELSE "Original")
                 /\ pc' = "create"
                 /\ UNCHANGED result
            ELSE Return("IOError") /\ UNCHANGED file
       ELSE IF options.output_file # NoPath
            THEN pc' = "create" /\ UNCHANGED <<file, result>>
            ELSE Return("Panic") /\ UNCHANGED file
    /\ UNCHANGED <<data, output, fs, file1_path, file2_path, counters, given>>

\* prepare_normal_ed, lines 713-730: the positional file is loaded when it
\* is given; without it the explicit output path alone is the destination.
PrepareNormalEd ==
    /\ pc = "start"
    /\ kind \notin HeaderFormats
    /\ IF options.file # NoPath
       THEN IF IsFile(fs[options.file])
            THEN /\ file' = LoadFile(fs[options.file].bytes,
                                     IF options.reverse THEN "Modified" ELSE "Original")
                 /\ pc' = "create"
                 /\ UNCHANGED result
            ELSE Return("IOError") /\ UNCHANGED file
       ELSE IF options.output_file # NoPath
            THEN pc' = "create" /\ UNCHANGED <<file, result>>
            ELSE Return("Error") /\ UNCHANGED file
    /\ UNCHANGED <<data, output, fs, file1_path, file2_path, counters, given>>

\* A mutation of the preparations: the source is loaded after File::create.
CreateOutputThenLoad ==
    /\ pc = "create"
    /\ IF fs[OutputPath].type = "dir"
       THEN Return("IOError") /\ UNCHANGED <<fs, output, file>>
       ELSE /\ fs' = [fs EXCEPT ![OutputPath] = RegularFile(<<>>)]
            /\ output' = [some |-> TRUE, path |-> OutputPath]
            /\ file' = IF file.some
                       THEN LoadFile(fs'[SourcePath].bytes, file.kind)
                       ELSE file
            /\ pc' = "dispatch"
            /\ UNCHANGED result
    /\ UNCHANGED <<data, file1_path, file2_path, counters, given>>

\* File::create of both preparations (lines 692-693 and 732-733): the
\* destination is created or truncated.
CreateOutput ==
    /\ pc = "create"
    /\ IF fs[OutputPath].type = "dir"
       THEN Return("IOError") /\ UNCHANGED <<fs, output>>
       ELSE /\ fs' = [fs EXCEPT ![OutputPath] = RegularFile(<<>>)]
            /\ output' = [some |-> TRUE, path |-> OutputPath]
            /\ pc' = "dispatch"
            /\ UNCHANGED result
    /\ UNCHANGED <<data, file, file1_path, file2_path, counters, given>>

----------------------------------------------------------------------------
(* apply(): the algorithms *)

RECURSIVE Emit(_, _)
\* The bytes after a writeln! of each text.
Emit(bytes, texts) ==
    IF texts = <<>> THEN bytes
    ELSE Emit(WriteLine(bytes, Head(texts)), Tail(texts))

\* The output file after writing the texts to the sink.
Written(texts) ==
    [fs EXCEPT ![output.path] = RegularFile(Emit(@.bytes, texts))]

\* A mutation of the end of the hunk loop: every algorithm copies what is
\* left of the source.
AfterHunksDrain == "tail"

\* Where the loop over the hunks goes after the last one: only
\* apply_edit_script copies what is left of the source.
AfterHunks == IF kind = "EditScript" THEN "tail" ELSE "final"

\* The match of apply() (lines 770-785) and the head of the chosen
\* algorithm: the sort, the two unwraps and the counters.
Dispatch ==
    /\ pc = "dispatch"
    /\ IF kind = "EditScript" /\ options.reverse
       THEN Return("Ok") /\ UNCHANGED <<data, counters>>
       ELSE /\ data' = SortHunks(kind, options.reverse, data)
            /\ IF ~output.some \/ ~file.some
               THEN Return("Panic") /\ UNCHANGED counters
               ELSE /\ old_file_line' = 1
                    /\ new_file_line' = 1
                    /\ no_new_line_count' = 0
                    /\ change_index' = 0
                    /\ hunk_i' = 1
                    /\ line_j' = 1
                    /\ pc' = IF data = <<>> THEN AfterHunks ELSE "copy"
                    /\ UNCHANGED result
    /\ UNCHANGED <<file, output, fs, file1_path, file2_path, given>>

\* The cursor over the source file: new_file_line in the reverse
\* algorithms, old_file_line (original_file_line) in the others.
Cursor == IF options.reverse THEN new_file_line ELSE old_file_line

\* The copy of the source lines before hunk hunk_i (for apply_normal lines
\* 129-137); a line number past the end of the file is an index panic.
CopyThrough ==
    /\ pc = "copy"
    /\ LET h == data[hunk_i]
           bound == CopyBoundary(kind, options.reverse, h, Cursor)
           last == Min(bound - 1, Len(file.lines))
           copied == IF last >= Cursor THEN last - Cursor + 1 ELSE 0
       IN  /\ fs' = Written(SubSeq(file.lines, Cursor, last))
           /\ IF bound - 1 > Len(file.lines) /\ bound > Cursor
              THEN Return("Panic") /\ UNCHANGED counters
              ELSE /\ IF options.reverse
                      THEN /\ new_file_line' = new_file_line + copied
                           /\ UNCHANGED old_file_line
                      ELSE /\ old_file_line' = old_file_line + copied
                           /\ new_file_line' = IF kind = "Context" THEN new_file_line
                                               ELSE new_file_line + copied
                   /\ line_j' = 1
                   /\ pc' = "lines"
                   /\ UNCHANGED <<result, no_new_line_count, change_index, hunk_i>>
    /\ UNCHANGED <<data, file, output, file1_path, file2_path, given>>

\* One patch line of hunk hunk_i; after the hunk's last line the loop goes
\* to the next hunk.  apply_edit_script stops at a closing "." line.
PatchLineStep ==
    /\ pc = "lines"
    /\ LET h == data[hunk_i]
           walked == WalkedLines(kind, h)
           l == walked[line_j]
           dot == kind = "EditScript" /\ line_j = Len(walked) /\ l.text = "."
           eff == IF dot
                  THEN Effect(<<>>, old_file_line, new_file_line,
                              no_new_line_count, change_index)
                  ELSE LineEffect(kind, options.reverse, h, l, file.lines,
                                  old_file_line, new_file_line,
                                  no_new_line_count, change_index)
       IN  IF eff.panic
           THEN Return("Panic") /\ UNCHANGED <<fs, counters>>
           ELSE /\ fs' = Written(eff.write)
                /\ old_file_line' = eff.old
                /\ new_file_line' = eff.new
                /\ no_new_line_count' = eff.nnl
                /\ change_index' = eff.chg
                /\ IF line_j < Len(walked)
                   THEN line_j' = line_j + 1 /\ UNCHANGED <<hunk_i, pc>>
                   ELSE IF hunk_i < Len(data)
                        THEN hunk_i' = hunk_i + 1 /\ pc' = "copy" /\ UNCHANGED line_j
                        ELSE pc' = AfterHunks /\ UNCHANGED <<hunk_i, line_j>>
                /\ UNCHANGED result
    /\ UNCHANGED <<data, file, output, file1_path, file2_path, given>>

\* apply_edit_script, lines 602-608: what is left of the source is copied
\* when more than old_file_line lines exist.
DrainTail ==
    /\ pc = "tail"
    /\ IF Len(file.lines) > old_file_line
       THEN /\ fs' = Written(SubSeq(file.lines, old_file_line, Len(file.lines)))
            /\ new_file_line' = new_file_line + (Len(file.lines) - old_file_line + 1)
            /\ old_file_line' = Len(file.lines) + 1
       ELSE UNCHANGED <<fs, old_file_line, new_file_line>>
    /\ pc' = "final"
    /\ UNCHANGED <<data, file, output, file1_path, file2_path, result,
                   no_new_line_count, change_index, hunk_i, line_j, given>>

\* The match on the no-newline counter that ends every algorithm.
ResolveNewline ==
    /\ pc = "final"
    /\ IF EmitsFinalNewline(kind, options.reverse, no_new_line_count, file)
       THEN fs' = [fs EXCEPT ![output.path] = RegularFile(WriteNewline(@.bytes))]
       ELSE UNCHANGED fs
    /\ Return("Ok")
    /\ UNCHANGED <<data, file, output, file1_path, file2_path, counters, given>>

\* The second half of a round trip: after a forward apply(), a new Hunks of
\* the same hunks is applied in reverse to what the first call wrote.  For
\* the header formats the reverse call reads file2's path.
StartReverse ==
    /\ pc = "done"
    /\ pass = 1
    /\ result = "Ok"
    /\ ~options.reverse
    /\ kind # "EditScript"
    /\ pass' = 2
    /\ options' = [options EXCEPT !.reverse = TRUE]
    /\ data' = AddAll(kind, <<>>, ParsedHunks(kind, scen))
    /\ fs' = IF kind \in HeaderFormats /\ file2_header.matches
             THEN [fs EXCEPT ![file2_header.path] = fs[output.path]]
             ELSE fs
    /\ file' = NoFile
    /\ output' = NoOutput
    /\ file1_path' = NoPath
    /\ file2_path' = NoPath
    /\ pc' = "start"
    /\ result' = "None"
    /\ UNCHANGED <<kind, file1_header, file2_header, scen, call, counters,
                   range_call, range_result>>

Next ==
    \/ PrepareContextUnified
    \/ HandleBackup
    \/ LoadSource
    \/ PrepareNormalEd
    \/ CreateOutput
    \/ Dispatch
    \/ CopyThrough
    \/ PatchLineStep
    \/ DrainTail
    \/ ResolveNewline
    \/ StartReverse

----------------------------------------------------------------------------
(* The range decoders (range.rs).  A line is a sequence of one-character
   strings; every character is one byte, so str::len is Len. *)

Digits == {"0", "1", "2", "3", "4", "5", "6", "7", "8", "9"}

DigitValue(ch) ==
    CASE ch = "0" -> 0 [] ch = "1" -> 1 [] ch = "2" -> 2 [] ch = "3" -> 3
      [] ch = "4" -> 4 [] ch = "5" -> 5 [] ch = "6" -> 6 [] ch = "7" -> 7
      [] ch = "8" -> 8 [] ch = "9" -> 9

\* a non-empty run of decimal digits
IsNumeral(s) == s # <<>> /\ \A i \in 1..Len(s) : s[i] \in Digits

RECURSIVE NumeralValue(_)
NumeralValue(s) ==
    IF s = <<>> THEN 0
    ELSE 10 * NumeralValue(SubSeq(s, 1, Len(s) - 1)) + DigitValue(s[Len(s)])

\* usize::from_str_radix(s, 10) and str::parse::<usize>: an optional '+'
\* and at least one digit.  (Lines here are far too short to overflow usize.)
ParseUsize(s) ==
    LET body == IF s # <<>> /\ Head(s) = "+" THEN Tail(s) ELSE s
    IN  IF IsNumeral(body)
        THEN [ok |-> TRUE, value |-> NumeralValue(body)]
        ELSE [ok |-> FALSE, value |-> 0]

RECURSIVE Split(_, _)
\* str::split(sep): one piece more than there are separators, empty pieces kept.
Split(s, sep) ==
    IF \A i \in 1..Len(s) : s[i] # sep THEN <<s>>
    ELSE LET i == CHOOSE i \in 1..Len(s) :
                    s[i] = sep /\ \A j \in 1..(i - 1) : s[j] # sep
         IN  <<SubSeq(s, 1, i - 1)>> \o Split(SubSeq(s, i + 1, Len(s)), sep)

\* chars().filter(|ch| *ch != '+' && *ch != '-')
DropSigns(s) == SelectSeq(s, LAMBDA ch : ch # "+" /\ ch # "-")

RECURSIVE Trim(_)
\* str::trim
Trim(s) ==
    IF s = <<>> THEN s
    ELSE IF Head(s) = " " THEN Trim(Tail(s))
    ELSE IF s[Len(s)] = " " THEN Trim(SubSeq(s, 1, Len(s) - 1))
    ELSE s

\* RangeResult: Ok(Range), Err(RangeError), or a panic inside the decoder.
RangeOk(r) == [panic |-> r.panic, err |-> "None", start |-> r.start,
               end |-> r.end, kind |-> r.kind]
RangeErr(e) == [panic |-> FALSE, err |-> e, start |-> 0, end |-> 0, kind |-> "None"]
RangePanic == [panic |-> TRUE, err |-> "None", start |-> 0, end |-> 0, kind |-> "None"]

\* Range::try_from_unified
TryFromUnified(line) ==
    LET strs == Split(DropSigns(line), ",")
        nums == [i \in 1..Len(strs) |-> ParseUsize(strs[i])]
    IN  IF \E i \in 1..Len(strs) : ~nums[i].ok THEN RangeErr("InvalidRange")
        ELSE CASE Len(strs) = 1 -> RangeOk(RangeNew(nums[1].value, 0, "Unified"))
               [] Len(strs) = 2 ->
                    RangeOk(RangeNew(nums[1].value, nums[2].value, "Unified"))
               [] OTHER -> RangeErr("InvalidRange")

\* A mutation of try_from_context: the single-number form stores 0 as the
\* end, as try_from_unified does.
TryFromContextAsCount(line) ==
    LET splitted == Split(line, " ")
    IN  IF Len(splitted) # 3 THEN RangeErr("InvalidRange")
        ELSE LET strs == Split(splitted[2], ",")
                 nums == [i \in 1..Len(strs) |-> ParseUsize(strs[i])]
             IN  IF Len(strs) \notin {1, 2} THEN RangeErr("InvalidRange")
                 ELSE IF \E i \in 1..Len(strs) : ~nums[i].ok
                      THEN RangeErr("InvalidRange")
                 ELSE IF Len(strs) = 1
                      THEN RangeOk(RangeNew(nums[1].value, 0, "Context"))
                 ELSE RangeOk(RangeNew(nums[1].value, nums[2].value, "Context"))

\* Range::try_from_context
TryFromContext(line) ==
    LET splitted == Split(line, " ")
    IN  IF Len(splitted) # 3 THEN RangeErr("InvalidRange")
        ELSE LET strs == Split(splitted[2], ",")
                 nums == [i \in 1..Len(strs) |-> ParseUsize(strs[i])]
             IN  IF Len(strs) \notin {1, 2} THEN RangeErr("InvalidRange")
                 ELSE IF \E i \in 1..Len(strs) : ~nums[i].ok
                      THEN RangeErr("InvalidRange")
                 ELSE IF Len(strs) = 1
                      THEN RangeOk(RangeNew(nums[1].value, nums[1].value, "Context"))
                 ELSE RangeOk(RangeNew(nums[1].value, nums[2].value, "Context"))

\* Range::edit_script_range_kind: the last character of the trimmed line.
EditScriptRangeKind(line) ==
    LET t == Trim(line)
    IN  IF t = <<>> THEN [panic |-> TRUE, ekind |-> "None"]
        ELSE CASE t[Len(t)] = "a" -> [panic |-> FALSE, ekind |-> "Insert"]
               [] t[Len(t)] = "c" -> [panic |-> FALSE, ekind |-> "Change"]
               [] t[Len(t)] = "d" -> [panic |-> FALSE, ekind |-> "Delete"]
               [] OTHER -> [panic |-> TRUE, ekind |-> "None"]

\* The match on numeric_strings.len() of try_from_edit_script.
EditScriptNumbers(text) ==
    LET strs == Split(text, ",")
        nums == [i \in 1..Len(strs) |-> ParseUsize(strs[i])]
    IN  CASE Len(strs) = 1 ->
                IF nums[1].ok
                THEN RangeOk(RangeNew(nums[1].value, nums[1].value, "EditScript"))
                ELSE RangeErr("InvalidRangeWithError")
          [] Len(strs) = 2 ->
                IF nums[1].ok /\ nums[2].ok
                THEN RangeOk(RangeNew(nums[1].value, nums[2].value, "EditScript"))
                ELSE RangeErr("InvalidRangeWithError")
          [] OTHER -> RangeErr("InvalidRange")

\* A mutation of try_from_edit_script: the command letter is not cut off.
TryFromEditScriptWhole(line) ==
    EditScriptNumbers(Trim(line))

\* Range::try_from_edit_script.  The slice &line.trim()[0..line.len() - 1]
\* takes its end from the untrimmed length: it panics when that end lies
\* past the trimmed text (for the empty line the wrapping subtraction
\* gives usize::MAX).
TryFromEditScript(line) ==
    LET t == Trim(line)
    IN  IF Len(line) = 0 \/ Len(line) - 1 > Len(t) THEN RangePanic
        ELSE EditScriptNumbers(SubSeq(t, 1, Len(line) - 1))

----------------------------------------------------------------------------
(* Specification of Range::new on its own *)

NoCall == [start |-> 0, end |-> 0, kind |-> "None", made |-> FALSE]

RangeInit ==
    /\ range_call = NoCall
    /\ range_result = NoRange

\* One call of Range::new(start, end, kind).
CallRangeNew ==
    \E s \in 0..MaxNum, e \in 0..MaxNum, k \in PatchFormat :
        /\ range_call' = [start |-> s, end |-> e, kind |-> k, made |-> TRUE]
        /\ range_result' = RangeNew(s, e, k)
        /\ UNCHANGED engineVars


----------------------------------------------------------------------------
(* Specifications *)

Init == EngineInit /\ RangeInit

\* The engine: every apply() call within the bounds.
Spec == Init /\ [][Next]_vars

\* Hunks::new (lines 48-67): an empty Hunks of a format, nothing prepared.
\* The file system holds nothing and apply() is not called.
HunksNew(fmt, at) ==
    /\ kind = fmt
    /\ data = <<>>
    /\ options = [reverse |-> FALSE, backup |-> FALSE, file |-> NoPath,
                  output_file |-> NoPath]
    /\ file1_header = NoHeader
    /\ file2_header = NoHeader
    /\ file1_path = NoPath
    /\ file2_path = NoPath
    /\ file = NoFile
    /\ output = NoOutput
    /\ fs = [p \in AllPaths |-> Absent]
    /\ pc = at
    /\ result = "None"
    /\ old_file_line = 1
    /\ new_file_line = 1
    /\ no_new_line_count = 0
    /\ change_index = 0
    /\ hunk_i = 1
    /\ line_j = 1
    /\ scen = ExampleScenario
    /\ call = PlainConfig("Normal")
    /\ pass = 1

RangeSpecInit == HunksNew("Normal", "idle") /\ RangeInit

RangeSpecNext == CallRangeNew

\* Range::new called with every start, end and format within the bounds.
SpecRange == RangeSpecInit /\ [][RangeSpecNext]_vars

----------------------------------------------------------------------------
(* Specification of Range::end and of the range decoders: one call each, on
   every range and every line within the bounds *)

\* longest line handed to a decoder (the named examples apart)
MaxLineLen == 5

\* Characters the lines are made of: digits, the separators the decoders
\* split on, a sign and a command letter (which is no digit).
Alphabet == {"1", "2", ",", " ", "+", "d"}

RECURSIVE LinesOfLen(_)
LinesOfLen(n) ==
    IF n = 0 THEN {<<>>}
    ELSE {Append(s, ch) : s \in LinesOfLen(n - 1), ch \in Alphabet}

\* Lines of a real diff, with the characters the alphabet leaves out.
ExampleLines ==
    {<<"3", ",", "5">>, <<"7">>,
     <<"*", "*", "*", " ", "3", ",", "5", " ", "*", "*", "*", "*">>,
     <<"-", "-", "-", " ", "7", " ", "-", "-", "-", "-">>,
     <<"*", "*", "*", " ", "5", ",", "3", " ", "*", "*", "*", "*">>,
     <<"-", "1", ",", "3">>, <<"+", "4">>, <<"-", "0", ",", "0">>,
     <<"4", ",", "6", "d">>, <<"1", "0", "a">>, <<"2", ",", "3", "c">>,
     <<"6", ",", "4", "d">>, <<"5", "x">>, <<"4", ",", "6", "d", " ", " ">>}

DecodeLines == UNION {LinesOfLen(n) : n \in 0..MaxLineLen} \cup ExampleLines

DecoderOps == {"try_from_unified", "try_from_context", "try_from_edit_script",
               "edit_script_range_kind"}

\* Every Range that Range::new returns within the bounds.
Ranges ==
    {RangeNew(s, e, k) : s \in 0..MaxNum, e \in 0..MaxNum, k \in PatchFormat}
        \ {RangeNew(1, 0, "Normal")}

DecodeCalls ==
    {[op |-> o, line |-> l, range |-> NoRange, made |-> FALSE] :
        o \in DecoderOps, l \in DecodeLines}
    \cup {[op |-> "end", line |-> <<>>, range |-> r, made |-> FALSE] : r \in Ranges}

DecodeInit ==
    /\ HunksNew("Normal", "idle")
    /\ range_call \in DecodeCalls
    /\ range_result = NoRange

\* The call range_call names is still to be made.
Pending(op) == range_call.op = op /\ ~range_call.made

\* The call is made; nothing of the engine is touched.
Made == range_call' = [range_call EXCEPT !.made = TRUE] /\ UNCHANGED engineVars

\* self.end(): a panic for PatchFormat::None (line 56)
CallRangeEnd ==
    /\ Pending("end")
    /\ range_result' = IF range_call.range.kind = "None"
                       THEN [panic |-> TRUE, value |-> 0]
                       ELSE [panic |-> FALSE, value |-> RangeEnd(range_call.range)]
    /\ Made

CallTryFromUnified ==
    /\ Pending("try_from_unified")
    /\ range_result' = TryFromUnified(range_call.line)
    /\ Made

CallTryFromContext ==
    /\ Pending("try_from_context")
    /\ range_result' = TryFromContext(range_call.line)
    /\ Made

CallTryFromEditScript ==
    /\ Pending("try_from_edit_script")
    /\ range_result' = TryFromEditScript(range_call.line)
    /\ Made

CallEditScriptRangeKind ==
    /\ Pending("edit_script_range_kind")
    /\ range_result' = EditScriptRangeKind(range_call.line)
    /\ Made

DecodeNext ==
    \/ CallRangeEnd
    \/ CallTryFromUnified
    \/ CallTryFromContext
    \/ CallTryFromEditScript
    \/ CallEditScriptRangeKind

SpecDecode == DecodeInit /\ [][DecodeNext]_vars

----------------------------------------------------------------------------
(* Specification of the population of a Hunks (add_hunk, add_patch_line) *)

\* most patch lines added to one hunk
MaxLines == 2

\* A hunk as the parser makes it before its lines are added.
EmptyHunk(fmt) ==
    Hunk(fmt, RangeNew(1, 1, fmt), RangeNew(1, 1, fmt), "None", <<>>, <<>>, <<>>)

\* One text line of each format, and the no-newline marker of each.
SomeLines ==
    {PatchLine("NormalLineInsert", "Normal", "a"),
     PatchLine("UnifiedUnchanged", "Unified", "a"),
     PatchLine("ContextUnchanged", "Context", "a"),
     PatchLine("EditScriptInsert", "EditScript", "a")}
    \cup {NoNewLine(fmt) : fmt \in Formats}

\* Hunks::new for each format but None, which its assertion refuses.
PopulateInit ==
    /\ \E fmt \in Formats : HunksNew(fmt, "populate")
    /\ RangeInit

untouched == <<options, file1_header, file2_header, file1_path, file2_path,
               file, output, fs, old_file_line, new_file_line,
               no_new_line_count, change_index, hunk_i, line_j, scen, call,
               pass, range_call, range_result>>

\* A call of add_hunk with a hunk of any format.
CallAddHunk ==
    /\ pc = "populate"
    /\ Len(data) < MaxHunks
    /\ \E fmt \in Formats :
        LET r == AddHunk(kind, data, EmptyHunk(fmt))
        IN  /\ data' = r.data
            /\ IF r.panic THEN Return("Panic") ELSE UNCHANGED <<pc, result>>
    /\ UNCHANGED <<kind, untouched>>

\* A call of add_patch_line with a line of any format.
CallAddPatchLine ==
    /\ pc = "populate"
    /\ IF data = <<>> THEN TRUE ELSE Len(data[Len(data)].lines) < MaxLines
    /\ \E line \in SomeLines :
        LET r == AddPatchLine(kind, data, line)
        IN  /\ data' = r.data
            /\ IF r.panic THEN Return("Panic") ELSE UNCHANGED <<pc, result>>
    /\ UNCHANGED <<kind, untouched>>

PopulateNext == CallAddHunk \/ CallAddPatchLine

\* Hunks populated by the parser's calls, in any order and of any format.
SpecPopulate == PopulateInit /\ [][PopulateNext]_vars

----------------------------------------------------------------------------
(* Properties *)

\* What the output sink has written so far.
OutBytes == fs[output.path].bytes

\* apply() was called the plain way and has returned.
PlainDone == pc = "done" /\ call = PlainConfig(kind)

\* The final step wrote exactly one newline, or nothing at all.
EmittedNewline == fs' = [fs EXCEPT ![output.path] = RegularFile(WriteNewline(@.bytes))]
EmittedNothing == fs' = fs

\* The file system before the first apply() call.
FsBefore == InitialFs(kind, options.reverse, scen, call)

\* The destination of the first call, NoPath when none can be determined.
Destination ==
    IF kind \in HeaderFormats
    THEN (IF options.reverse
          THEN (IF file2_header.matches THEN file2_header.path ELSE NoPath)
          ELSE (IF file1_header.matches THEN file1_header.path ELSE NoPath))
    ELSE (IF options.file # NoPath THEN options.file ELSE options.output_file)

(* C1: for Normal, Unified and Context, applying the hunks of a diff of A
   against B forward to A yields B, and applying them in reverse to that
   result yields A again, bytes and trailing newline included. *)
C1_RoundTrip ==
    (PlainDone /\ kind \in {"Normal", "Unified", "Context"}) =>
        /\ (pass = 1 /\ ~options.reverse) =>
                (result = "Ok" /\ OutBytes = FileBytes(scen.B, scen.ewnB))
        /\ pass = 2 =>
                (result = "Ok" /\ OutBytes = FileBytes(scen.A, scen.ewnA))

(* C2: the Normal hunk "delete line 2" applied forward to the lines a, b, c
   writes exactly a, c, each with its newline; applied in reverse to a, c it
   writes exactly a, b, c. *)
C2_DeleteLineExample ==
    (PlainDone /\ kind = "Normal" /\ scen = ExampleScenario /\ pass = 1) =>
        /\ result = "Ok"
        /\ OutBytes = IF options.reverse
                      THEN <<"a", NL, "b", NL, "c", NL>>
                      ELSE <<"a", NL, "c", NL>>

(* C3: apply() on an EditScript Hunks with the reverse option returns an
   error to the caller; it neither panics nor returns success. *)
C3_EditScriptReverseIsError ==
    (pc = "done" /\ kind = "EditScript" /\ options.reverse) =>
        result \in {"Error", "IOError"}

(* C4: apply() on an EditScript Hunks with the reverse option leaves the
   destination as it was: not created, not truncated, nothing written. *)
C4_EditScriptReverseWritesNothing ==
    (kind = "EditScript" /\ options.reverse) =>
        \A p \in Paths : fs[p] = FsBefore[p]

(* C5: in every format, when a backup is asked for and the destination is
   not an existing regular file, apply() returns an error and the
   destination is not created, truncated or written. *)
C5_BackupOfMissingFileFails ==
    (pass = 1 /\ call.backup /\ Destination # NoPath
     /\ ~IsFile(FsBefore[Destination])) =>
        /\ fs[Destination] = FsBefore[Destination]
        /\ pc = "done" => result \in {"Error", "IOError"}

(* C6: every hunk stored in a Hunks has the format of the collection: a
   hunk of another format makes add_hunk abort and is never stored. *)
C6_SameFormat ==
    \A i \in 1..Len(data) : HunkKind(data[i]) = kind

(* C7: after a successful apply() the output ends as the file being
   reconstructed ends: with exactly one newline after its last line when
   that file ends with a newline, without a newline when it does not. *)
C7_TrailingNewlineMirrored ==
    (pc = "done" /\ result = "Ok" /\ pass = 1
     /\ ~(kind = "EditScript" /\ options.reverse)) =>
        LET ewn == IF options.reverse THEN scen.ewnA ELSE scen.ewnB
            n == Len(OutBytes)
        IN  IF ewn
            THEN n >= 2 /\ OutBytes[n] = NL /\ OutBytes[n - 1] # NL
            ELSE n = 0 \/ OutBytes[n] # NL

(* C8, as claimed: the final step emits one newline when the counter is 0,
   emits one when the counter is 1 if and only if the loaded file does not
   end with a newline, and emits nothing when the counter is 2 or more. *)
C8_FinalStepAsClaimed ==
    [][pc = "final" =>
          IF \/ no_new_line_count = 0
             \/ no_new_line_count = 1 /\ ~file.ends_with_newline
          THEN EmittedNewline ELSE EmittedNothing]_vars

(* C8, amended: the final step emits one newline when the counter is 0;
   when the counter is 1 it emits one if and only if the loaded file does
   not end with a newline and the algorithm is a forward one or
   context-reverse (normal-reverse and unified-reverse test for an Original
   file while holding a Modified one, and emit nothing); when the counter
   is 2 or more it emits nothing. *)
C8_FinalStep ==
    [][pc = "final" =>
          IF \/ no_new_line_count = 0
             \/ /\ no_new_line_count = 1
                /\ ~file.ends_with_newline
                /\ (~options.reverse \/ kind = "Context")
          THEN EmittedNewline ELSE EmittedNothing]_vars

\* C8's case: a reverse algorithm ends with the counter at 1 on a file
\* without a final newline.
C8_Witness ==
    /\ pc = "done"
    /\ result = "Ok"
    /\ options.reverse
    /\ kind \in {"Normal", "Unified", "Context"}
    /\ no_new_line_count = 1
    /\ ~file.ends_with_newline

(* C9: when the counter is 1 and the loaded file does not end with a
   newline, the final step emits no newline; when the counter is 0 it emits
   one. *)
C9_CounterOneSuppresses ==
    [][pc = "final" =>
          /\ (no_new_line_count = 1 /\ ~file.ends_with_newline) => EmittedNothing
          /\ no_new_line_count = 0 => EmittedNewline]_vars

(* C10: Range::new aborts whenever start > end and the format is not
   Unified, and never aborts when the format is Unified. *)
C10_RangeNewAborts ==
    range_call.made =>
        (range_result.panic <=>
            (range_call.start > range_call.end /\ range_call.kind # "Unified"))

\* C10's case: a Unified range whose start exceeds its stored end was made.
C10_Witness ==
    /\ range_call.made
    /\ range_call.kind = "Unified"
    /\ range_call.start > range_call.end
    /\ ~range_result.panic
    /\ range_result.start = range_call.start


\* The call of op has returned (or panicked).
Returned(op) == range_call.op = op /\ range_call.made

\* The text N or N,M: one or two numerals around a comma.
IsNumeralOrPair(s) ==
    LET strs == Split(s, ",")
    IN  Len(strs) \in {1, 2} /\ \A i \in 1..Len(strs) : IsNumeral(strs[i])

\* The numbers N and M of such a text (M is N when there is one numeral).
FirstNumber(s) == NumeralValue(Split(s, ",")[1])
SecondNumber(s) == LET strs == Split(s, ",") IN NumeralValue(strs[Len(strs)])

\* The decoder returned Ok(Range{start, end}) of the format.
DecodedAs(start, end, fmt) ==
    /\ ~range_result.panic
    /\ range_result.err = "None"
    /\ range_result.start = start
    /\ range_result.end = end
    /\ range_result.kind = fmt

(* C11: Range::end() is start + the stored end (a count) for a Unified
   range, the stored end for a Normal, Context or EditScript range, and an
   abort for a range of the None format. *)
C11_RangeEnd ==
    Returned("end") =>
        LET r == range_call.range
        IN  CASE r.kind = "None" -> range_result.panic
              [] r.kind = "Unified" ->
                    ~range_result.panic /\ range_result.value = r.start + r.end
              [] OTHER -> ~range_result.panic /\ range_result.value = r.end

\* C11's case: end() of a Unified range with a count above 0 was taken.
C11_Witness ==
    /\ Returned("end")
    /\ range_call.range.kind = "Unified"
    /\ range_call.range.start > 0
    /\ range_call.range.end > 0
    /\ range_result.value > range_call.range.end

(* C12, as claimed: try_from_context applied to the text "N,M" with N <= M
   returns Range{start: N, end: M}, and applied to the text "N" returns
   Range{start: N, end: N}. *)
C12_ContextDecodesBareText ==
    (/\ Returned("try_from_context")
     /\ IsNumeralOrPair(range_call.line)
     /\ FirstNumber(range_call.line) <= SecondNumber(range_call.line)) =>
        DecodedAs(FirstNumber(range_call.line), SecondNumber(range_call.line),
                  "Context")

(* C12, amended: try_from_context applied to a line of three tokens
   separated by single spaces, whose middle token is "N,M" with N <= M,
   returns Range{start: N, end: M}; with the middle token "N" it returns
   Range{start: N, end: N}. *)
C12_ContextDecodesRangeLine ==
    (/\ Returned("try_from_context")
     /\ Len(Split(range_call.line, " ")) = 3
     /\ LET mid == Split(range_call.line, " ")[2]
        IN  IsNumeralOrPair(mid) /\ FirstNumber(mid) <= SecondNumber(mid)) =>
        LET mid == Split(range_call.line, " ")[2]
        IN  DecodedAs(FirstNumber(mid), SecondNumber(mid), "Context")

\* C12's case: "*** 3,5 ****" was decoded to 3..5 (and "--- 7 ----" to 7..7).
C12_Witness ==
    /\ Returned("try_from_context")
    /\ \/ /\ range_call.line = <<"*", "*", "*", " ", "3", ",", "5", " ",
                                 "*", "*", "*", "*">>
          /\ DecodedAs(3, 5, "Context")
       \/ /\ range_call.line = <<"-", "-", "-", " ", "7", " ", "-", "-", "-", "-">>
          /\ DecodedAs(7, 7, "Context")

\* A line "N,Mx" or "Nx" with x one of a, c, d.
IsEditScriptHeader(s) ==
    /\ Len(s) >= 2
    /\ s[Len(s)] \in {"a", "c", "d"}
    /\ IsNumeralOrPair(SubSeq(s, 1, Len(s) - 1))

EditNumbers(s) == SubSeq(s, 1, Len(s) - 1)

KindOfLetter(ch) ==
    CASE ch = "a" -> "Insert" [] ch = "c" -> "Change" [] ch = "d" -> "Delete"

(* C13, as claimed: for a line "N,Mx" or "Nx" with x in {a, c, d},
   try_from_edit_script returns Range{start: N, end: M} (M = N for the
   single-number form) and edit_script_range_kind returns Insert for a,
   Change for c, Delete for d. *)
C13_EditScriptHeaderAnyOrder ==
    IsEditScriptHeader(range_call.line) =>
        /\ Returned("try_from_edit_script") =>
                DecodedAs(FirstNumber(EditNumbers(range_call.line)),
                          SecondNumber(EditNumbers(range_call.line)), "EditScript")
        /\ Returned("edit_script_range_kind") =>
                /\ ~range_result.panic
                /\ range_result.ekind =
                        KindOfLetter(range_call.line[Len(range_call.line)])

(* C13, amended: for a line "N,Mx" with N <= M, or "Nx", with x in
   {a, c, d}, try_from_edit_script returns Range{start: N, end: M} (M = N
   for the single-number form) and edit_script_range_kind returns Insert
   for a, Change for c, Delete for d, by the final character only. *)
C13_EditScriptHeader ==
    (/\ IsEditScriptHeader(range_call.line)
     /\ FirstNumber(EditNumbers(range_call.line))
            <= SecondNumber(EditNumbers(range_call.line))) =>
        /\ Returned("try_from_edit_script") =>
                DecodedAs(FirstNumber(EditNumbers(range_call.line)),
                          SecondNumber(EditNumbers(range_call.line)), "EditScript")
        /\ Returned("edit_script_range_kind") =>
                /\ ~range_result.panic
                /\ range_result.ekind =
                        KindOfLetter(range_call.line[Len(range_call.line)])

\* C13's case: "4,6d" was decoded to 4..6.
C13_Witness ==
    /\ Returned("try_from_edit_script")
    /\ range_call.line = <<"4", ",", "6", "d">>
    /\ DecodedAs(4, 6, "EditScript")

(* C14: on every input line each of try_from_unified, try_from_context and
   try_from_edit_script returns a Range or a RangeError; none aborts. *)
C14_DecodersNeverAbort ==
    (range_call.made /\ range_call.op \in {"try_from_unified", "try_from_context",
                                           "try_from_edit_script"}) =>
        ~range_result.panic


\* The header the direction asks for: file2's when reverse is set.
ChosenHeader == IF options.reverse THEN file2_header ELSE file1_header

(* C15: for Unified and Context, preparation takes the path of file2's
   header when reverse is set and of file1's header otherwise: that file is
   the one loaded and the one created.  When the chosen header does not
   match the pattern, apply() returns an error, and no backup is taken, no
   file loaded and no output created or truncated, whatever the other
   header holds. *)
C15_ChosenHeader ==
    (kind \in HeaderFormats /\ pass = 1) =>
        IF ChosenHeader.matches
        THEN /\ file.some =>
                    file = LoadFile(FsBefore[ChosenHeader.path].bytes,
                                    IF options.reverse THEN "Modified" ELSE "Original")
             /\ output.some => output.path = ChosenHeader.path
             /\ \A p \in Paths \ {ChosenHeader.path} : fs[p] = FsBefore[p]
        ELSE /\ fs = FsBefore
             /\ file = NoFile
             /\ output = NoOutput
             /\ pc \in {"start", "done"}
             /\ pc = "done" => result = "Error"

\* C15's case: the chosen header does not match while the other one does,
\* a backup was asked for, and apply() has returned.
C15_Witness ==
    /\ kind \in HeaderFormats
    /\ pc = "done"
    /\ result = "Error"
    /\ options.backup
    /\ ~ChosenHeader.matches
    /\ (IF options.reverse THEN file1_header ELSE file2_header).matches
    /\ fs = FsBefore


(* C16: for Normal and EditScript, with an explicit output path in the
   options apply() writes to that path and leaves the positional file as it
   was; only without an explicit output path is the positional file itself
   truncated and rewritten. *)
C16_ExplicitOutputPath ==
    (kind \notin HeaderFormats /\ pass = 1 /\ output.some) =>
        IF options.output_file # NoPath
        THEN /\ output.path = options.output_file
             /\ options.file # NoPath => fs[options.file] = FsBefore[options.file]
        ELSE output.path = options.file

(* C17: for Normal and EditScript, with neither a positional file nor an
   explicit output path in the options, apply() returns the policy error
   (PatchError::Error, not an I/O error), and no file is created, truncated
   or written. *)
C17_NoDestination ==
    (kind \notin HeaderFormats /\ options.file = NoPath
     /\ options.output_file = NoPath) =>
        /\ fs = FsBefore
        /\ output = NoOutput
        /\ pc \in {"start", "done"}
        /\ pc = "done" => result = "Error"

\* C17's case: apply() was called without any destination and has returned.
C17_Witness ==
    /\ kind \notin HeaderFormats
    /\ options.file = NoPath
    /\ options.output_file = NoPath
    /\ pc = "done"
    /\ result = "Error"
    /\ fs = FsBefore

(* C18: in all four formats, when a backup is asked for, the copy of the
   chosen input file at <path>.orig holds its content of before the patch
   from the moment the destination is opened for writing, and so when
   apply() has succeeded. *)
C18_BackupBeforeWrite ==
    (pass = 1 /\ options.backup /\ Destination # NoPath
     /\ (output.some \/ (pc = "done" /\ result = "Ok"))) =>
        /\ IsFile(fs[OrigPath(Destination)])
        /\ fs[OrigPath(Destination)] = FsBefore[Destination]

\* The hunks of the diff in ascending order of their place in the files.
InFileOrder == [k \in 1..Len(scen.edits) |-> HunkOf(kind, scen, k)]

(* C19: whatever order the hunks were added in, every apply algorithm
   walks them in non-decreasing order of its sort key, which for the hunks
   of a diff is the ascending order of their place in the file read: what
   is written does not depend on the order of arrival. *)
C19_OrderOfArrival ==
    pc \in {"copy", "lines", "tail", "final"} =>
        /\ \A i \in 1..Len(data) : \A j \in i..Len(data) :
                SortKey(kind, options.reverse, data[i])
                    <= SortKey(kind, options.reverse, data[j])
        /\ data = InFileOrder

(* C20: in apply_edit_script, after the last hunk, every source line from
   the cursor on is written, in order, however many are left (one
   included), and the cursor ends at the number of source lines plus one. *)
C20_TailFlush ==
    [][pc = "tail" =>
          /\ fs' = Written(SubSeq(file.lines, old_file_line, Len(file.lines)))
          /\ old_file_line' = Len(file.lines) + 1]_vars


\* The three formats whose algorithms do not copy the rest of the source.
NoTailFormats == {"Normal", "Unified", "Context"}

\* The step at hand processes the last patch line of the last hunk.
AtLastLine ==
    /\ pc = "lines"
    /\ hunk_i = Len(data)
    /\ line_j = Len(WalkedLines(kind, data[hunk_i]))

(* C21: in the Normal, Unified and Context algorithms, in both directions,
   once the last line of the last hunk is processed nothing of the source
   is written any more: the next step is the trailing-newline resolution,
   which writes one newline or nothing. *)
C21_NoTailCopy ==
    [][(kind \in NoTailFormats) =>
          ((AtLastLine => pc' \in {"final", "done"})
           /\ (pc = "final" =>
                    ((EmittedNothing \/ EmittedNewline) /\ pc' = "done")))]_vars

\* C21's case: an algorithm has returned with source lines after the last
\* hunk still unread, and the last of them is not in the output.
C21_Witness ==
    /\ kind \in NoTailFormats
    /\ pc = "done"
    /\ result = "Ok"
    /\ Cursor <= Len(file.lines)
    /\ \A i \in 1..Len(OutBytes) : OutBytes[i] # file.lines[Len(file.lines)]


----------------------------------------------------------------------------
(* Range headers and separators *)

\* The PatchLine variants that are range headers or separators.
HeaderTags ==
    {"NormalRange", "NormalChangeSeparator", "UnifiedHunkHeader",
     "ContextHunkRange", "ContextHunkSeparator", "EditScriptRange"}

\* The patch line the loop over the lines of hunk hunk_i is at.
CurrentLine == WalkedLines(kind, data[hunk_i])[line_j]

\* The step at hand processes a range header or a separator, and the
\* match arm runs to its end.
HeaderStep ==
    /\ pc = "lines"
    /\ CurrentLine.tag \in HeaderTags
    /\ result' # "Panic"

\* The number of lines a range covers.
Span(r) == RangeEnd(r) - RangeStart(r) + 1

\* The step writes exactly the source line at the cursor.
EmittedSourceLine == fs' = Written(<<file.lines[Cursor]>>)

\* The cursor after the step.
CursorAfter == IF options.reverse THEN new_file_line' ELSE old_file_line'

\* What a range header of the Normal format does, forward.
NormalHeaderForward ==
    CASE CurrentLine.hk = "Insert" ->
            /\ CursorAfter = Cursor
            /\ IF Cursor <= RangeStart(CurrentLine.left)
               THEN EmittedSourceLine ELSE EmittedNothing
      [] OTHER ->
            /\ CursorAfter = Cursor + Span(CurrentLine.left)
            /\ EmittedNothing

\* What a range header of the Normal format does, in reverse.
NormalHeaderReverse ==
    CASE CurrentLine.hk = "Delete" ->
            IF Cursor <= RangeStart(CurrentLine.right)
            THEN CursorAfter = Cursor + 1 /\ EmittedSourceLine
            ELSE CursorAfter = Cursor /\ EmittedNothing
      [] OTHER ->
            /\ CursorAfter = Cursor + Span(CurrentLine.right)
            /\ EmittedNothing

\* What a range header of the EditScript format does.
EditScriptHeader ==
    /\ EmittedNothing
    /\ CursorAfter =
          (CASE CurrentLine.hk = "Delete" -> Cursor + Span(CurrentLine.left)
             [] CurrentLine.hk = "Change" -> Cursor + Span(data[hunk_i].f1)
             [] OTHER -> Cursor)

(* C22 as stated: in every apply algorithm, processing a range header or a
   separator leaves the output, the source cursor and the no-newline
   counter unchanged. *)
C22_HeadersAreInert ==
    [][HeaderStep =>
          (EmittedNothing /\ CursorAfter = Cursor
           /\ no_new_line_count' = no_new_line_count)]_vars

(* C22: processing a range header or a separator never changes the
   no-newline counter.  A Unified or Context header or separator and the
   Normal change separator leave the output and the cursor unchanged too.
   A Normal range header moves the cursor past its range (forward: Change
   and Delete, over the left range; reverse: Insert and Change, over the
   right range) and writes nothing, while the forward Insert header and the
   reverse Delete header write the source line at the cursor when the
   cursor is not past the range start, the reverse one advancing by one.
   An EditScript Delete or Change header moves the cursor past its range
   and writes nothing. *)
C22_HeaderEffects ==
    [][HeaderStep =>
          (/\ no_new_line_count' = no_new_line_count
           /\ CASE CurrentLine.tag = "NormalRange" /\ ~options.reverse ->
                      NormalHeaderForward
                [] CurrentLine.tag = "NormalRange" /\ options.reverse ->
                      NormalHeaderReverse
                [] CurrentLine.tag = "EditScriptRange" -> EditScriptHeader
                [] OTHER -> EmittedNothing /\ CursorAfter = Cursor)]_vars

\* C22's case: the Delete header of a Normal hunk has been processed in a
\* forward run, and the cursor stands past the header's left range.
C22_Witness ==
    /\ kind = "Normal"
    /\ ~options.reverse
    /\ pc = "lines"
    /\ line_j = 2
    /\ data[hunk_i].lines[1].tag = "NormalRange"
    /\ data[hunk_i].lines[1].hk = "Delete"
    /\ old_file_line = RangeEnd(data[hunk_i].lines[1].left) + 1

----------------------------------------------------------------------------
(* Unified hunk lines *)

\* The step at hand processes a line of a Unified hunk with this tag.
UnifiedStep(tag) ==
    /\ kind = "Unified"
    /\ pc = "lines"
    /\ CurrentLine.tag = tag

\* The step writes the text of the patch line at hand.
EmittedOwnText == fs' = Written(<<OriginalLine(CurrentLine)>>)

\* The tags of the lines a Unified hunk holds of the file being read.
OccupyingTags ==
    IF options.reverse THEN {"UnifiedUnchanged", "UnifiedInserted"}
    ELSE {"UnifiedUnchanged", "UnifiedDeleted"}

\* How many of the first n lines of hunk h are lines of the file being read.
Occupied(h, n) ==
    Cardinality({i \in 1..n : h.lines[i].tag \in OccupyingTags})

(* C23: in Unified application, forward, a Deleted line advances the cursor
   by one and writes nothing, an Inserted line writes its text and leaves
   the cursor, an Unchanged line writes its text and advances by one; in
   reverse the roles of Deleted and Inserted are exchanged.  Hence over the
   lines of a hunk the cursor advances by the number of lines the hunk
   holds of the file being read. *)
C23_UnifiedLineEffects ==
    [][/\ UnifiedStep("UnifiedUnchanged") =>
              (EmittedOwnText /\ CursorAfter = Cursor + 1)
       /\ UnifiedStep(IF options.reverse THEN "UnifiedInserted"
                      ELSE "UnifiedDeleted") =>
              (EmittedNothing /\ CursorAfter = Cursor + 1)
       /\ UnifiedStep(IF options.reverse THEN "UnifiedDeleted"
                      ELSE "UnifiedInserted") =>
              (EmittedOwnText /\ CursorAfter = Cursor)
       /\ (kind = "Unified" /\ pc = "lines") =>
              (CursorAfter - Occupied(data[hunk_i], line_j)
                  = Cursor - Occupied(data[hunk_i], line_j - 1))]_vars

\* C23's case: a reverse run has processed every line of a hunk that holds
\* an Inserted line, and the cursor stands as many lines past the hunk's
\* boundary as the hunk holds of the file being read.
C23_Witness ==
    /\ kind = "Unified"
    /\ options.reverse
    /\ pc = "final"
    /\ \E i \in 1..Len(data[hunk_i].lines) :
           data[hunk_i].lines[i].tag = "UnifiedInserted"
    /\ Occupied(data[hunk_i], Len(data[hunk_i].lines)) >= 2
    /\ new_file_line = RangeStart(data[hunk_i].f2)
                          + Occupied(data[hunk_i], Len(data[hunk_i].lines))

----------------------------------------------------------------------------
(* A failing sink.  Every writeln!(output, ...) of the algorithms ends with
   `?`: an io::Error of the sink becomes PatchError::IOError (patch_error.rs
   lines 12-16) and the algorithm, and apply() with it, returns at once. *)

\* The program points of the algorithms that write to the sink.
WritePcs == {"copy", "lines", "tail", "final"}

\* The texts the step at hand passes to writeln!, in order.
StepTexts ==
    CASE pc = "copy" ->
            LET bound == CopyBoundary(kind, options.reverse, data[hunk_i], Cursor)
            IN  SubSeq(file.lines, Cursor, Min(bound - 1, Len(file.lines)))
      [] pc = "lines" ->
            IF kind = "EditScript" /\ line_j = Len(WalkedLines(kind, data[hunk_i]))
                                   /\ CurrentLine.text = "."
            THEN <<>>
            ELSE LineEffect(kind, options.reverse, data[hunk_i], CurrentLine,
                            file.lines, old_file_line, new_file_line,
                            no_new_line_count, change_index).write
      [] pc = "tail" ->
            IF Len(file.lines) > old_file_line
            THEN SubSeq(file.lines, old_file_line, Len(file.lines))
            ELSE <<>>
      [] pc = "final" ->
            IF EmitsFinalNewline(kind, options.reverse, no_new_line_count, file)
            THEN <<"">>
            ELSE <<>>
      [] OTHER -> <<>>

\* A mutation of the `?` after writeln!: the error is noted and the
\* algorithm goes on.
WriteFailsNoted ==
    /\ pc \in WritePcs
    /\ StepTexts # <<>>
    /\ result' = "IOError"
    /\ UNCHANGED <<pc, fs, data, file, output, file1_path, file2_path,
                   counters, given>>

\* The k-th writeln! of the step at hand fails: the texts before it are
\* written, and apply() returns the error.  The counters are locals of the
\* frame that is left.
WriteFails ==
    /\ pc \in WritePcs
    /\ \E k \in 1..Len(StepTexts) : fs' = Written(SubSeq(StepTexts, 1, k - 1))
    /\ Return("IOError")
    /\ UNCHANGED <<data, file, output, file1_path, file2_path, counters, given>>

FaultyNext == Next \/ WriteFails

\* The engine with a sink that may fail at any write.
SpecFaulty == Init /\ [][FaultyNext]_vars

\* Sequence a is a prefix of sequence b.
IsPrefix(a, b) == Len(a) <= Len(b) /\ SubSeq(b, 1, Len(a)) = a

\* apply() has returned the error of a failed write.
WriteFailed == pc = "done" /\ result = "IOError" /\ output.some

(* C24: when a write to the output fails during an apply algorithm, apply()
   returns the I/O error at once; from then on no hunk line is processed
   and nothing is written or retried, and the bytes written before the
   failure stay in the destination, every other file being untouched. *)
C24_WriteFailureStops ==
    [][/\ (pc \in WritePcs /\ result' = "IOError") =>
              /\ pc' = "done"
              /\ IsPrefix(OutBytes, fs'[output.path].bytes)
              /\ \A p \in DOMAIN fs : p # output.path => fs'[p] = fs[p]
       /\ ~WriteFailed]_vars

\* C24's case: a write failed after some bytes were written and before the
\* last hunk line was processed; the bytes are in the destination.
C24_Witness ==
    /\ WriteFailed
    /\ OutBytes # <<>>
    /\ data # <<>>
    /\ line_j < Len(WalkedLines(kind, data[hunk_i]))

----------------------------------------------------------------------------
(* Source lines and hunk ranges *)

\* The formats whose hunks carry the text of every line in their range.
FullTextFormats == {"Unified", "Context"}

\* The line numbers of the file being read that lie inside the range of a
\* hunk of diff S: edit k with its context, in A forward and in B in
\* reverse.
HunkRegion(S, reverse) ==
    UNION {LET e == S.edits[k]
               shift == IF reverse THEN Offset(S.edits, k) ELSE 0
               held == IF reverse THEN e.ins ELSE e.del
           IN  (e.at - PreCtx(S, e) + shift + 1)
                   .. (e.at + shift + held + PostCtx(S, e)) :
           k \in 1..Len(S.edits)}

\* The line numbers of the source the copy before hunk hunk_i reads.
CopiedLines ==
    Cursor .. Min(CopyBoundary(kind, options.reverse, data[hunk_i], Cursor) - 1,
                  Len(file.lines))

\* The source with every line replaced by another text.
OtherSource == [i \in 1..Len(file.lines) |-> "?"]

\* The line at hand has the same effect whatever the source lines are.
SourceBlind ==
    LineEffect(kind, options.reverse, data[hunk_i], CurrentLine, OtherSource,
               old_file_line, new_file_line, no_new_line_count, change_index)
      = LineEffect(kind, options.reverse, data[hunk_i], CurrentLine, file.lines,
                   old_file_line, new_file_line, no_new_line_count, change_index)

(* C25: in Unified and Context application the output does not depend on
   the source lines inside hunk ranges: a hunk line has the same effect
   whatever the source holds, and the copy between hunks reads no source
   line that lies inside the range of a hunk. *)
C25_SourceNotCompared ==
    [][(kind \in FullTextFormats /\ pass = 1) =>
          ((pc = "lines" => SourceBlind)
           /\ (pc = "copy" =>
                  CopiedLines \cap HunkRegion(scen, options.reverse) = {}))]_vars

----------------------------------------------------------------------------
(* Normal forward: the cursor and the source lines written *)

\* How many lines of the output hold this text.
TimesWritten(text) ==
    Cardinality({i \in 1..Len(SplitLines(OutBytes, <<>>)) :
                    SplitLines(OutBytes, <<>>)[i] = text})

\* No line of the source was written to the output more than once (the
\* lines of a source are pairwise different, and differ from every
\* inserted line).
NoSourceLineTwice ==
    (output.some /\ file.some) =>
        \A i \in 1..Len(file.lines) : TimesWritten(file.lines[i]) <= 1

(* C26: in Normal forward application with any number of hunks the source
   cursor never decreases and no source line is written to the output more
   than once, the line written at an Insert range header included. *)
C26_NoLineTwice ==
    [][(kind = "Normal" /\ ~options.reverse /\ pass = 1) =>
          (old_file_line' >= old_file_line /\ NoSourceLineTwice')]_vars

----------------------------------------------------------------------------
(* Load before create *)

\* PatchFile::load_file of the source as it was before apply() was called.
PrePatchFile ==
    LoadFile(FsBefore[SourcePath].bytes,
             IF options.reverse THEN "Modified" ELSE "Original")

(* C27: in every preparation path the source is read completely before the
   destination is created or truncated: once the sink exists, the loaded
   file holds the lines the source had before the call, also when source
   and destination are the same path. *)
C27_LoadBeforeCreate ==
    (pass = 1 /\ output.some /\ SourcePath # NoPath) =>
        (file.some /\ file = PrePatchFile)

\* C27's case: an in-place call has returned; the destination, which is the
\* source path, no longer holds the source's bytes, and the loaded file
\* still holds its lines.
C27_Witness ==
    /\ pass = 1
    /\ pc = "done"
    /\ result = "Ok"
    /\ output.some
    /\ output.path = SourcePath
    /\ fs[SourcePath].bytes # FsBefore[SourcePath].bytes
    /\ file.lines # <<>>
    /\ file = PrePatchFile

----------------------------------------------------------------------------
(* What a successful preparation leaves *)

\* prepare_to_apply has returned Ok: apply() is at its match.
Prepared == pc = "dispatch"

(* C28: whenever prepare_to_apply returns success, the loaded source file
   and the output sink are both present, for every combination of the
   positional file and the explicit output path, so that the algorithm
   that follows does not abort on a missing file or sink. *)
C28_PreparedHasFileAndSink ==
    [][Prepared => (file.some /\ output.some /\ result' # "Panic")]_vars

----------------------------------------------------------------------------
(* Context forward: the index of the changed line *)

\* The step at hand replaces a changed line of the original side.
AtChangedLine ==
    /\ kind = "Context"
    /\ ~options.reverse
    /\ pc = "lines"
    /\ CurrentLine.tag = "ContextDeleted"
    /\ CurrentLine.is_change

\* How many changed original-side lines of the current hunk come before the
\* line at hand.
ChangedBefore ==
    Cardinality({i \in 1..(line_j - 1) :
                    /\ WalkedLines(kind, data[hunk_i])[i].tag = "ContextDeleted"
                    /\ WalkedLines(kind, data[hunk_i])[i].is_change})

(* C29: in Context forward application with several hunks, the index
   passed to change_by_index counts the changed lines from 0 within the
   current hunk, so the k-th changed original-side line is replaced by the
   k-th changed line of the same hunk, and the index stays below the number
   of changed lines the hunk holds. *)
C29_ChangeIndexPerHunk ==
    AtChangedLine =>
        (change_index = ChangedBefore /\ HasChange(data[hunk_i], change_index))

----------------------------------------------------------------------------
(* The counter-1 branch of the reverse algorithms *)

\* The final match of a reverse algorithm is reached with the counter at 1.
ReverseCounterOne ==
    /\ pc = "final"
    /\ options.reverse
    /\ no_new_line_count = 1

(* C30: a reverse algorithm holds a file loaded with role Modified.  With
   the counter at exactly 1, normal-reverse and unified-reverse, which test
   for role Original, emit no final newline whatever the file's
   ends_with_newline flag is; context-reverse alone consults the flag, and
   emits a newline exactly when the file does not end with one. *)
C30_ReverseCounterOne ==
    [][ReverseCounterOne =>
          (/\ file.kind = "Modified"
           /\ IF kind = "Context" /\ ~file.ends_with_newline
              THEN EmittedNewline ELSE EmittedNothing)]_vars

\* C30's case: normal-reverse or unified-reverse has returned with the
\* counter at 1 on a Modified file that does not end with a newline.
C30_Witness ==
    /\ pc = "done"
    /\ result = "Ok"
    /\ options.reverse
    /\ kind \in {"Normal", "Unified"}
    /\ no_new_line_count = 1
    /\ file.kind = "Modified"
    /\ ~file.ends_with_newline
====
